---- MODULE Spec2Model ----
(***************************************************************************)
(* A model of src/dbus_api.rs: the retrying D-Bus method-call dispatcher   *)
(* (call / call_with_args / call_with_args_retry / create_and_send_message *)
(* / send_message_checked), the property read, and the reply extractors.   *)
(*                                                                         *)
(* Values.  Option<T> is a sequence of length 0 (None) or 1 (Some).        *)
(* A dbus::Error is [name, message], both Option<string>.  An Error of the *)
(* errors module is [kind, msg, dbus, cause]: msg is the text of the       *)
(* DBusAPI kind, as the sequence of its pieces; dbus holds the transport   *)
(* error a foreign error was converted from; cause is the chained inner    *)
(* error.  A Result<T> is [ok, val, err].                                  *)
(***************************************************************************)
EXTENDS Integers, Sequences, FiniteSets, TLC

\* ------------------------------------------------------------------ bounds

\* Number of caller threads that may use the one DBusApi concurrently.
NumThreads == 2

\* Number of distinct texts a transport error's message can have.
NumTexts == 2

\* Largest number of elements of a wire array.
MaxLen == 2

\* Largest number of arguments of a reply message handed to the extractors.
MaxArgs == 2

\* ------------------------------------------------------- program constants

DEFAULT_TIMEOUT == 15

RETRIES_ALLOWED == 10

\* ------------------------------------------------------------------ values

Threads == 1..NumThreads

None == <<>>

Some(x) == <<x>>

IsSome(o) == Len(o) = 1

Unwrap(o) == o[1]

\* The symbolic names a transport error can carry.
ErrorNames == {"ServiceUnknown", "AccessDenied"}

ErrorTexts == {"text" \o ToString(i) : i \in 1..NumTexts}

\* dbus::Error: an optional name and an optional message.
DBusErrors == [name : {None} \cup {Some(n) : n \in ErrorNames},
               message : {None} \cup {Some(m) : m \in ErrorTexts}]

\* The replies (dbus::Message) a method call can be answered with; a reply is
\* the sequence of its arguments, here integers.
Replies == {<<>>, <<7>>}

\* What send_with_reply_and_block can return: Ok(reply) or Err(dbus::Error).
TransportOk(r) == [ok |-> TRUE, val |-> Some(r), err |-> None]

TransportErr(e) == [ok |-> FALSE, val |-> None, err |-> Some(e)]

TransportOutcomes == {TransportOk(r) : r \in Replies} \cup {TransportErr(e) : e \in DBusErrors}

\* The object paths Message::new_method_call accepts, among those used here.
ValidPaths == {"/org/nm", "/org/nm/Devices/0"}

\* The (path, interface, method) a caller may pass to call; the last path is
\* not an object path.
CallTargets ==
    {[path |-> "/org/nm", interface |-> "org.nm", member |-> "GetDevices"],
     [path |-> "/org/nm/Devices/0", interface |-> "org.nm.Device", member |-> "Disconnect"],
     [path |-> "not a path", interface |-> "org.nm", member |-> "GetDevices"]}

\* The arguments DBusApi::new is given: the retryable error names and the
\* optional timeout.
Configurations ==
    {[names |-> {}, timeout |-> None],
     [names |-> {"ServiceUnknown"}, timeout |-> Some(3)],
     [names |-> {"ServiceUnknown", "AccessDenied"}, timeout |-> None]}

\* ------------------------------------------------------------ wire values

\* A signed 64-bit integer is <<h, m, l>>, standing for h * 2^32 + m * 2^16 + l
\* with h a signed 32-bit number and m, l in 0..65535; an unsigned 32-bit
\* integer is <<m, l>>, standing for m * 2^16 + l.
I64(h, m, l) == <<h, m, l>>

\* A wire value (Variant<Box<RefArg>>, or an argument of a Message): a runtime
\* tag and the payload of that tag.
WStr(x) == [tag |-> "str", str |-> x, int |-> I64(0, 0, 0), elems |-> <<>>]

WInt(x) == [tag |-> "int", str |-> "", int |-> x, elems |-> <<>>]

WDouble == [tag |-> "double", str |-> "", int |-> I64(0, 0, 0), elems |-> <<>>]

WArray(xs) == [tag |-> "array", str |-> "", int |-> I64(0, 0, 0), elems |-> xs]

\* All sequences over S of length at most n.
SeqUpTo(S, n) == UNION {[1..k -> S] : k \in 0..n}

\* The elements a wire array can hold.
WireElements ==
    {WStr("a"), WStr("b"),
     WInt(I64(0, 0, 1)), WInt(I64(0, 0, 263)), WInt(I64(-1, 65535, 65535))}

WireScalars ==
    {WStr("wlan0"), WStr(""), WDouble,
     WInt(I64(0, 0, 0)), WInt(I64(0, 0, 1)), WInt(I64(0, 0, 263)),
     WInt(I64(-1, 65535, 65535)), WInt(I64(1, 0, 5)), WInt(I64(1, 0, 0))}

WireValues == WireScalars \cup {WArray(xs) : xs \in SeqUpTo(WireElements, MaxLen)}

\* The reply messages handed to extract and extract_two: the sequence of
\* their arguments.
ResponseArgs == {WStr("a"), WInt(I64(0, 0, 1)), WDouble}

Responses == SeqUpTo(ResponseArgs, MaxArgs)

\* The target types of property<T>.
TargetTypes == {"String", "i64", "u32", "bool", "Vec<String>", "Vec<u8>"}

\* The types T: Get<'a> the extractors are asked for, by the wire tag they read.
GetTypes == {"str", "int"}

\* What the Properties::get of the transport can return.
FetchOutcomes == {TransportOk(v) : v \in WireValues} \cup {TransportErr(e) : e \in DBusErrors}

\* --------------------------------------------------------------- errors

\* ErrorKind::DBusAPI(message).into()
DBusAPIError(msg) == [kind |-> "DBusAPI", msg |-> msg, dbus |-> None, cause |-> None]

\* Error::from(e) for a dbus::Error e: the foreign-link kind holding e.
ErrorFromDBus(e) == [kind |-> "DBus", msg |-> <<>>, dbus |-> Some(e), cause |-> None]

\* The transport error e itself, boxed as the cause of a chained error.
BoxedDBus(e) == [kind |-> "dbus::Error", msg |-> <<>>, dbus |-> Some(e), cause |-> None]

\* e.chain_err(|| kind): a new error of that kind whose cause is e.
ChainErr(e, msg) == [kind |-> "DBusAPI", msg |-> msg, dbus |-> None, cause |-> Some(e)]

Ok(v) == [ok |-> TRUE, val |-> Some(v), err |-> None]

Err(e) == [ok |-> FALSE, val |-> None, err |-> Some(e)]

\* ------------------------------------------------------------------ state

VARIABLES
    base,                      \* DBusApi.base
    method_timeout,            \* DBusApi.method_timeout
    method_retry_error_names,  \* DBusApi.method_retry_error_names
    pc,          \* per thread: "idle", "loop" (top of the retry loop), "sleep", "done"
    op,          \* per thread: the operation it runs: "none", "call", "property", ...
    args,        \* per thread: [path, interface, member] of the running operation
    retries,     \* per thread: the local `retries` of call_with_args_retry
    attempt,     \* per thread: what create_and_send_message returned last
    result,      \* per thread: what the operation returned, once pc = "done"
    log,         \* per thread: the levels of the log events it emitted, in order
    builds,      \* observer: Message::new_method_call invocations of the call
    sends,       \* observer: send_with_reply_and_block invocations of the call
    delays,      \* observer: thread::sleep invocations of the call
    slept,       \* observer: the seconds the call has spent in thread::sleep
    want,        \* per thread: the type parameters of property / extract / extract_two
    response,    \* per thread: the Message handed to extract / extract_two
    fetches,     \* observer: Properties::get invocations of the property read
    transient,   \* observer: how many sends the transport answered with an error
                 \*           whose name is in the retryable-error-name set
    answer       \* observer: what the transport answered to the latest send

config == <<base, method_timeout, method_retry_error_names>>

threadVars == <<pc, op, args, retries, attempt, result, log, want, response,
               builds, sends, delays, slept, fetches, transient, answer>>

vars == <<config, threadVars>>

\* ------------------------------------------------------- the dispatcher

\* DBusApi::new: the timeout defaults to DEFAULT_TIMEOUT.
NewTimeout(t) == IF IsSome(t) THEN Unwrap(t) ELSE DEFAULT_TIMEOUT

\* Message::new_method_call(base, path, interface, method): Err(details) for a
\* path that is not an object path.
ValidPath(path) == path \in ValidPaths

NewMethodCallError(path) == <<"invalid object path", path>>

\* Mutant of NameMatches: any named error is retried once names are configured.
NameMatches_AnyNamed(names, e) == names # {} /\ e.name # None

\* Mutant of NameMatches: an error without a name is taken to match.
NameMatches_Unnamed(names, e) ==
    names # {} /\ (e.name = None \/ \E error_name \in names : e.name = Some(error_name))

\* Mutant of NameMatches: the message text is looked at too, and an error
\* with one particular text is not retried.
NameMatches_ByText(names, e) ==
    /\ \E error_name \in names : e.name = Some(error_name)
    /\ e.message # Some("text1")

\* The transport error e is answered with "should retry": its name is one of
\* method_retry_error_names.
NameMatches(names, e) == \E error_name \in names : e.name = Some(error_name)

\* Mutant of send_message_checked: every transport error is handed back,
\* the retryable ones too.
send_message_checked_NoRetry(names, outcome) ==
    IF outcome.ok
        THEN Some(Ok(Unwrap(outcome.val)))
        ELSE Some(Err(ErrorFromDBus(Unwrap(outcome.err))))

\* send_message_checked: Option<Result<Message>> from the transport's answer.
send_message_checked(names, outcome) ==
    IF outcome.ok
        THEN Some(Ok(Unwrap(outcome.val)))
        ELSE IF NameMatches(names, Unwrap(outcome.err))
            THEN None
            ELSE Some(Err(ErrorFromDBus(Unwrap(outcome.err))))

\* Mutant of create_and_send_message: a request that cannot be built is
\* answered with "should retry".
create_and_send_message_RetryBuild(names, path, outcome) ==
    IF ValidPath(path)
        THEN send_message_checked(names, outcome)
        ELSE None

\* create_and_send_message: a request that cannot be built is Some(Err(..))
\* and nothing is sent; otherwise the outcome of the send.
create_and_send_message(names, path, outcome) ==
    IF ValidPath(path)
        THEN send_message_checked(names, outcome)
        ELSE Some(Err(DBusAPIError(NewMethodCallError(path))))

\* Mutants of RetriesExhausted: the loop ends one retry early; the loop ends
\* only past the ceiling.
RetriesExhausted_Early(r) == r >= RETRIES_ALLOWED - 1

RetriesExhausted_Late(r) == r > RETRIES_ALLOWED

\* Mutant of RetriesExhausted: the ceiling is never reached.
RetriesExhausted_Never(r) == FALSE

\* The test that ends the loop of call_with_args_retry.
RetriesExhausted(r) == r = RETRIES_ALLOWED

\* Mutant of ExhaustedError: the text counts the sleeps, not the ceiling.
ExhaustedError_WrongCeiling ==
    DBusAPIError(<<"Method call failed after ", ToString(RETRIES_ALLOWED - 1), " retries">>)

\* Mutant of RetryDelay: a delay that grows with the number of retries.
RetryDelay_Growing(r) == r

\* The seconds slept before retry number r: Duration::from_secs(1), fixed.
RetryDelay(r) == 1

\* Mutant of BuildsAfter: the request is built in the first pass only and
\* kept for the later ones.
BuildsAfter_Once(b) == IF b = 0 THEN 1 ELSE b

\* The number of requests built once a pass of the loop that started with b
\* of them has called create_and_send_message: each call of it calls
\* Message::new_method_call.
BuildsAfter(b) == b + 1

\* The error call_with_args_retry bails with when the retries are used up.
ExhaustedError == DBusAPIError(<<"Method call failed after ", ToString(RETRIES_ALLOWED), " retries">>)

\* Mutant of CallFailedMessage: interface and method swapped in the format.
CallFailedMessage_Swapped(a) ==
    <<a.member, "::", a.interface, " method call failed on ", a.path>>

\* The message call_with_args wraps a failure in.
CallFailedMessage(a) == <<a.interface, "::", a.member, " method call failed on ", a.path>>

\* call_with_args: map_err over the result of call_with_args_retry.
call_with_args(r, a) ==
    IF r.ok THEN r ELSE Err(ChainErr(Unwrap(r.err), CallFailedMessage(a)))

\* ---------------------------------------------------- the value extractor

\* RefArg::as_str, as_i64, as_iter of a wire value.
as_str(v) == IF v.tag = "str" THEN Some(v.str) ELSE None

as_i64(v) == IF v.tag = "int" THEN Some(v.int) ELSE None

as_iter(v) == IF v.tag = "array" THEN Some(v.elems) ELSE None

\* `v as u32` of an i64: the low 32 bits.
AsU32(v) == <<v[2], v[3]>>

\* Mutant of AsU8: a saturating conversion.
AsU8_Saturating(v) ==
    IF v[1] < 0 THEN 0 ELSE IF v[1] > 0 \/ v[2] > 0 \/ v[3] > 255 THEN 255 ELSE v[3]

\* `v as u8` of an i64: the low 8 bits.
AsU8(v) == v[3] % 256

\* VariantTo<String>
variant_to_String(v) == IF IsSome(as_str(v)) THEN Some(Unwrap(as_str(v))) ELSE None

\* VariantTo<i64>
variant_to_i64(v) == as_i64(v)

\* Mutant of variant_to_u32: a checked conversion, failing out of range.
variant_to_u32_Checked(v) ==
    IF IsSome(as_i64(v)) /\ Unwrap(as_i64(v))[1] = 0
        THEN Some(AsU32(Unwrap(as_i64(v))))
        ELSE None

\* VariantTo<u32>
variant_to_u32(v) == IF IsSome(as_i64(v)) THEN Some(AsU32(Unwrap(as_i64(v)))) ELSE None

\* Mutant of variant_to_bool: the usual sense, true for a non-zero integer.
variant_to_bool_Truthy(v) ==
    IF IsSome(as_i64(v)) THEN Some(Unwrap(as_i64(v)) # I64(0, 0, 0)) ELSE None

\* VariantTo<bool>
variant_to_bool(v) ==
    IF IsSome(as_i64(v)) THEN Some(Unwrap(as_i64(v)) = I64(0, 0, 0)) ELSE None

\* Mutant of VecStringLoop: an element that is not a string is skipped.
RECURSIVE VecStringLoop_Skips(_, _)
VecStringLoop_Skips(list, acc) ==
    IF list = <<>>
        THEN Some(acc)
        ELSE IF IsSome(as_str(Head(list)))
            THEN VecStringLoop_Skips(Tail(list), Append(acc, Unwrap(as_str(Head(list)))))
            ELSE VecStringLoop_Skips(Tail(list), acc)

\* The loop of VariantTo<Vec<String>>: push each string, return None at the
\* first element that is not one.
RECURSIVE VecStringLoop(_, _)
VecStringLoop(list, acc) ==
    IF list = <<>>
        THEN Some(acc)
        ELSE IF IsSome(as_str(Head(list)))
            THEN VecStringLoop(Tail(list), Append(acc, Unwrap(as_str(Head(list)))))
            ELSE None

\* VariantTo<Vec<String>>
variant_to_VecString(v) ==
    IF IsSome(as_iter(v)) THEN VecStringLoop(Unwrap(as_iter(v)), <<>>) ELSE None

\* The loop of VariantTo<Vec<u8>>: push each integer as a byte, return None at
\* the first element that is not an integer.
RECURSIVE VecU8Loop(_, _)
VecU8Loop(list, acc) ==
    IF list = <<>>
        THEN Some(acc)
        ELSE IF IsSome(as_i64(Head(list)))
            THEN VecU8Loop(Tail(list), Append(acc, AsU8(Unwrap(as_i64(Head(list))))))
            ELSE None

\* VariantTo<Vec<u8>>
variant_to_VecU8(v) ==
    IF IsSome(as_iter(v)) THEN VecU8Loop(Unwrap(as_iter(v)), <<>>) ELSE None

\* DBusApi::variant_to::<T>
variant_to(T, v) ==
    CASE T = "String" -> variant_to_String(v)
      [] T = "i64" -> variant_to_i64(v)
      [] T = "u32" -> variant_to_u32(v)
      [] T = "bool" -> variant_to_bool(v)
      [] T = "Vec<String>" -> variant_to_VecString(v)
      [] T = "Vec<u8>" -> variant_to_VecU8(v)

\* Mutant of PropertyErrorLevel: the two levels swapped.
PropertyErrorLevel_Swapped(err) == IF err THEN "debug" ELSE "error"

\* The level the property_error closure logs at.
PropertyErrorLevel(err) == IF err THEN "error" ELSE "debug"

\* The message the property_error closure formats.
PropertyMessage(a, details) ==
    <<"Get ", a.interface, "::", a.member, " property failed on ", a.path, ": ", details>>

\* The details of a fetch error: e.message(), or "no details".
FetchDetails(e) == IF IsSome(e.message) THEN Unwrap(e.message) ELSE "no details"

\* Mutant of property: a fetch error whose name is a retryable one is not
\* handed to the caller; the read answers as if the value had the wrong type.
property_HidesTransient(T, a, fetched) ==
    IF fetched.ok
        THEN IF IsSome(variant_to(T, Unwrap(fetched.val)))
            THEN [ret |-> Ok(Unwrap(variant_to(T, Unwrap(fetched.val)))), logged |-> <<>>]
            ELSE [ret |-> Err(DBusAPIError(PropertyMessage(a, "wrong property type"))),
                  logged |-> <<PropertyErrorLevel(TRUE)>>]
        ELSE IF NameMatches(method_retry_error_names, Unwrap(fetched.err))
            THEN [ret |-> Err(DBusAPIError(PropertyMessage(a, "wrong property type"))),
                  logged |-> <<PropertyErrorLevel(FALSE)>>]
            ELSE [ret |-> Err(ChainErr(BoxedDBus(Unwrap(fetched.err)),
                                       PropertyMessage(a, FetchDetails(Unwrap(fetched.err))))),
                  logged |-> <<PropertyErrorLevel(FALSE)>>]

\* DBusApi::property::<T> from what Properties::get returned: what it returns
\* (ret) and the levels it logs at (logged).
property(T, a, fetched) ==
    IF fetched.ok
        THEN IF IsSome(variant_to(T, Unwrap(fetched.val)))
            THEN [ret |-> Ok(Unwrap(variant_to(T, Unwrap(fetched.val)))), logged |-> <<>>]
            ELSE [ret |-> Err(DBusAPIError(PropertyMessage(a, "wrong property type"))),
                  logged |-> <<PropertyErrorLevel(TRUE)>>]
        ELSE [ret |-> Err(ChainErr(BoxedDBus(Unwrap(fetched.err)),
                                   PropertyMessage(a, FetchDetails(Unwrap(fetched.err))))),
              logged |-> <<PropertyErrorLevel(FALSE)>>]

\* Iter::get::<T> at position pos of a message: Some when the argument is
\* there and has the type asked for.
Get(msg, pos, T) == IF pos <= Len(msg) /\ msg[pos].tag = T THEN Some(msg[pos]) ELSE None

\* Message::get1 and Message::get2
get1(msg, T) == Get(msg, 1, T)

get2(msg, T1, T2) == <<Get(msg, 1, T1), Get(msg, 2, T2)>>

WrongResponseType == DBusAPIError(<<"Wrong response type">>)

\* DBusApi::extract::<T>
extract(msg, T) ==
    IF IsSome(get1(msg, T)) THEN Ok(Unwrap(get1(msg, T))) ELSE Err(WrongResponseType)

\* Mutant of extract_two: only the first field is required.
extract_two_FirstOnly(msg, T1, T2) ==
    IF IsSome(get2(msg, T1, T2)[1])
        THEN Ok(get2(msg, T1, T2)[1] \o get2(msg, T1, T2)[2])
        ELSE Err(WrongResponseType)

\* DBusApi::extract_two::<T1, T2>
extract_two(msg, T1, T2) ==
    LET first == get2(msg, T1, T2)[1]
        second == get2(msg, T1, T2)[2]
    IN  IF IsSome(first) /\ IsSome(second)
            THEN Ok(<<Unwrap(first), Unwrap(second)>>)
            ELSE Err(WrongResponseType)

\* ------------------------------------------------------------------ Init

Init ==
    /\ base = "org.freedesktop.NetworkManager"
    /\ \E c \in Configurations :
        /\ method_timeout = NewTimeout(c.timeout)
        /\ method_retry_error_names = c.names
    /\ pc = [t \in Threads |-> "idle"]
    /\ op = [t \in Threads |-> "none"]
    /\ args = [t \in Threads |-> [path |-> "", interface |-> "", member |-> ""]]
    /\ retries = [t \in Threads |-> 0]
    /\ attempt = [t \in Threads |-> None]
    /\ result = [t \in Threads |-> None]
    /\ log = [t \in Threads |-> <<>>]
    /\ builds = [t \in Threads |-> 0]
    /\ sends = [t \in Threads |-> 0]
    /\ delays = [t \in Threads |-> 0]
    /\ slept = [t \in Threads |-> 0]
    /\ want = [t \in Threads |-> <<>>]
    /\ response = [t \in Threads |-> <<>>]
    /\ fetches = [t \in Threads |-> 0]
    /\ transient = [t \in Threads |-> 0]
    /\ answer = [t \in Threads |-> None]

\* --------------------------------------------------------------- actions

\* The transport's answer is an error whose symbolic name is in the configured
\* retryable-error-name set (what the observer counts in `transient`).
Transient(outcome) ==
    /\ ~outcome.ok
    /\ Unwrap(outcome.err).name # None
    /\ Unwrap(Unwrap(outcome.err).name) \in method_retry_error_names

\* A thread enters call / call_with_args with one of the given targets:
\* call_with_args_retry sets retries = 0.
CallStartWith(t, targets) ==
    /\ pc[t] = "idle"
    /\ \E a \in targets : args' = [args EXCEPT ![t] = a]
    /\ op' = [op EXCEPT ![t] = "call"]
    /\ retries' = [retries EXCEPT ![t] = 0]
    /\ pc' = [pc EXCEPT ![t] = "loop"]
    /\ UNCHANGED <<config, attempt, result, log, want, response, builds, sends, delays, slept,
                   fetches, transient, answer>>

\* A thread enters call / call_with_args with any target.
CallStart(t) == CallStartWith(t, CallTargets)

\* Mutant of RetriesOf: one counter, that of thread 1, shared by all calls.
RetriesOf_Shared(t) == retries[1]

\* The `retries` that the call of thread t reads: the local of its own
\* invocation of call_with_args_retry.
RetriesOf(t) == retries[t]

\* What one iteration of the loop of call_with_args_retry does with the
\* outcome `got` of create_and_send_message, up to the return or the sleep.
Iterate(t, got) ==
    /\ attempt' = [attempt EXCEPT ![t] = got]
    /\ IF IsSome(got)
        THEN \* return result, through the map_err of call_with_args
            /\ result' = [result EXCEPT ![t] = Some(call_with_args(Unwrap(got), args[t]))]
            /\ log' = [log EXCEPT ![t] =
                    IF Unwrap(got).ok THEN @ ELSE Append(@, "error")]
            /\ pc' = [pc EXCEPT ![t] = "done"]
            /\ UNCHANGED retries
        ELSE \* send_message_checked logged "Should retry"; retries += 1
            /\ retries' = [retries EXCEPT ![t] = RetriesOf(t) + 1]
            /\ IF RetriesExhausted(RetriesOf(t) + 1)
                THEN \* bail!, through the map_err of call_with_args
                    /\ result' = [result EXCEPT ![t] =
                            Some(call_with_args(Err(ExhaustedError), args[t]))]
                    /\ log' = [log EXCEPT ![t] = @ \o <<"debug", "error">>]
                    /\ pc' = [pc EXCEPT ![t] = "done"]
                ELSE \* debug!("Retrying ..."), then sleep
                    /\ result' = result
                    /\ log' = [log EXCEPT ![t] = @ \o <<"debug", "debug">>]
                    /\ pc' = [pc EXCEPT ![t] = "sleep"]

\* One pass of the loop when the request cannot be built: nothing is sent.
AttemptBuildFails(t) ==
    /\ pc[t] = "loop"
    /\ ~ValidPath(args[t].path)
    /\ builds' = [builds EXCEPT ![t] = BuildsAfter(@)]
    /\ Iterate(t, create_and_send_message(method_retry_error_names, args[t].path,
                                          TransportOk(<<>>)))
    /\ UNCHANGED <<config, op, args, want, response, sends, delays, slept, fetches,
                   transient, answer>>

\* One pass of the loop when the request is built: it is sent, and the
\* transport answers with one of the given outcomes, a reply or an error.
AttemptSendWith(t, outcomes) ==
    /\ pc[t] = "loop"
    /\ ValidPath(args[t].path)
    /\ builds' = [builds EXCEPT ![t] = BuildsAfter(@)]
    /\ sends' = [sends EXCEPT ![t] = @ + 1]
    /\ \E outcome \in outcomes :
        /\ answer' = [answer EXCEPT ![t] = Some(outcome)]
        /\ transient' = [transient EXCEPT ![t] = IF Transient(outcome) THEN @ + 1 ELSE @]
        /\ Iterate(t, create_and_send_message(method_retry_error_names, args[t].path,
                                              outcome))
    /\ UNCHANGED <<config, op, args, want, response, delays, slept, fetches>>

\* One pass of the loop when the request is built, with any answer of the
\* transport.
AttemptSend(t) == AttemptSendWith(t, TransportOutcomes)

\* std::thread::sleep(Duration::from_secs(1)), then back to the top of the loop.
Sleep(t) ==
    /\ pc[t] = "sleep"
    /\ delays' = [delays EXCEPT ![t] = @ + 1]
    /\ slept' = [slept EXCEPT ![t] = @ + RetryDelay(retries[t])]
    /\ pc' = [pc EXCEPT ![t] = "loop"]
    /\ UNCHANGED <<config, op, args, retries, attempt, result, log, want, response,
                   builds, sends, fetches, transient, answer>>

\* A thread runs property::<T>(path, interface, name) for one of the given
\* types: one Properties::get, answered with one of the given outcomes, then
\* the narrowing of what it returned.
PropertyReadWith(t, types, fetchable) ==
    /\ pc[t] = "idle"
    /\ \E T \in types, fetched \in fetchable :
        LET a == [path |-> "/org/nm", interface |-> "org.nm.Device", member |-> "State"]
        IN  /\ op' = [op EXCEPT ![t] = "property"]
            /\ args' = [args EXCEPT ![t] = a]
            /\ want' = [want EXCEPT ![t] = <<T>>]
            /\ fetches' = [fetches EXCEPT ![t] = @ + 1]
            /\ answer' = [answer EXCEPT ![t] = Some(fetched)]
            /\ result' = [result EXCEPT ![t] = Some(property(T, a, fetched).ret)]
            /\ log' = [log EXCEPT ![t] = @ \o property(T, a, fetched).logged]
    /\ pc' = [pc EXCEPT ![t] = "done"]
    /\ UNCHANGED <<config, retries, attempt, response, builds, sends, delays, slept, transient>>

\* A thread runs property::<T>(path, interface, name), any type, any answer.
PropertyRead(t) == PropertyReadWith(t, TargetTypes, FetchOutcomes)

\* A thread runs extract::<T>(response).
Extract(t) ==
    /\ pc[t] = "idle"
    /\ \E T \in GetTypes, msg \in Responses :
        /\ want' = [want EXCEPT ![t] = <<T>>]
        /\ response' = [response EXCEPT ![t] = msg]
        /\ result' = [result EXCEPT ![t] = Some(extract(msg, T))]
    /\ op' = [op EXCEPT ![t] = "extract"]
    /\ pc' = [pc EXCEPT ![t] = "done"]
    /\ UNCHANGED <<config, args, retries, attempt, log, builds, sends, delays, slept, fetches,
                   transient, answer>>

\* A thread runs extract_two::<T1, T2>(response).
ExtractTwo(t) ==
    /\ pc[t] = "idle"
    /\ \E T1 \in GetTypes, T2 \in GetTypes, msg \in Responses :
        /\ want' = [want EXCEPT ![t] = <<T1, T2>>]
        /\ response' = [response EXCEPT ![t] = msg]
        /\ result' = [result EXCEPT ![t] = Some(extract_two(msg, T1, T2))]
    /\ op' = [op EXCEPT ![t] = "extract_two"]
    /\ pc' = [pc EXCEPT ![t] = "done"]
    /\ UNCHANGED <<config, args, retries, attempt, log, builds, sends, delays, slept, fetches,
                   transient, answer>>

\* The steps of the operations of the dispatcher that thread t runs.
CallStep(t) ==
    \/ CallStart(t)
    \/ AttemptBuildFails(t)
    \/ AttemptSend(t)
    \/ Sleep(t)

\* One caller: thread 1 runs one operation of the DBusApi to its end.
Next ==
    \/ CallStart(1)
    \/ AttemptBuildFails(1)
    \/ AttemptSend(1)
    \/ Sleep(1)
    \/ PropertyRead(1)
    \/ Extract(1)
    \/ ExtractTwo(1)

Spec == Init /\ [][Next]_vars

\* One caller whose transport and whose sleep always return: a send that is
\* under way ends with a reply or an error (at the latest when
\* Duration::from_secs(method_timeout) has passed), a request that cannot be
\* built is refused, and thread::sleep wakes up.
FairSpec ==
    /\ Spec
    /\ WF_vars(AttemptSend(1))
    /\ WF_vars(AttemptBuildFails(1))
    /\ WF_vars(Sleep(1))

\* What the callers of the concurrent runs pass and are answered with: a
\* target that can be built and one that cannot; a reply and an error of
\* each name; a property that is fetched and one whose fetch fails.
ConcurrentTargets == {a \in CallTargets : a.interface = "org.nm"}

ConcurrentOutcomes ==
    {TransportOk(<<7>>)} \cup
    {TransportErr([name |-> Some(n), message |-> None]) : n \in ErrorNames}

ConcurrentFetches ==
    {TransportOk(WInt(I64(0, 0, 1))),
     TransportErr([name |-> Some("ServiceUnknown"), message |-> None])}

\* Several callers: every thread runs one call or one property read on the
\* shared DBusApi, in any interleaving.
ConcurrentNext ==
    \E t \in Threads :
        \/ CallStartWith(t, ConcurrentTargets)
        \/ AttemptBuildFails(t)
        \/ AttemptSendWith(t, ConcurrentOutcomes)
        \/ Sleep(t)
        \/ PropertyReadWith(t, {"bool"}, ConcurrentFetches)

ConcurrentSpec == Init /\ [][ConcurrentNext]_vars

\* The answers of the transport that differ from the answer o in nothing but
\* the message text of the error: the same reply, or an error of the same
\* name.
SameButText(o) ==
    {o2 \in TransportOutcomes :
        /\ o2.ok = o.ok
        /\ o.ok => o2 = o
        /\ ~o.ok => Unwrap(o2.err).name = Unwrap(o.err).name}

\* The targets of the paired runs: those whose request can be built.
PairTargets == {a \in CallTargets : ValidPath(a.path)}

\* Two runs of the same call on the same dispatcher, side by side: thread 1
\* makes a send and gets any answer; thread 2 then makes its send of the same
\* number and gets the same answer but for the message text of an error.
\* Each thread sleeps when its own loop says so.
PairNext ==
    \/ CallStartWith(1, PairTargets)
    \/ op[1] = "call" /\ CallStartWith(2, {args[1]})
    \/ op[2] = "call" /\ sends[1] = sends[2] /\ AttemptSendWith(1, TransportOutcomes)
    \/ sends[2] < sends[1] /\ AttemptSendWith(2, SameButText(Unwrap(answer[1])))
    \/ Sleep(1)
    \/ Sleep(2)

PairSpec == Init /\ [][PairNext]_vars

\* ------------------------------------------------------- observed outcomes

\* Thread t ran call and it has returned.
CallDone(t) == op[t] = "call" /\ pc[t] = "done"

\* What the operation of thread t returned.
Returned(t) == Unwrap(result[t])

\* The error the operation of thread t returned, and its chained cause.
ReturnedError(t) == Unwrap(Returned(t).err)

ReturnedCause(t) == Unwrap(ReturnedError(t).cause)

\* The transport's latest answer to thread t.
Answer(t) == Unwrap(answer[t])

\* The latest answer is a reply / a transient error / any other error.
AnsweredOk(t) == IsSome(answer[t]) /\ Answer(t).ok

AnsweredTransient(t) == IsSome(answer[t]) /\ Transient(Answer(t))

AnsweredOtherError(t) == IsSome(answer[t]) /\ ~Answer(t).ok /\ ~Transient(Answer(t))

\* ------------------------------------------------------------------ claims

\* C1: when the transport answers n < 10 sends of a call with retryable errors
\* and the next send with a reply, call returns that reply and has made
\* exactly n + 1 sends.  Stated on the states of the call: after n < 10
\* retryable errors in a row the call has not returned and has made n sends, so
\* the next send follows; and a call answered with a reply has returned that
\* very reply, after (number of retryable errors) + 1 sends.
C1_RetryThenSuccess ==
    \A t \in Threads : op[t] = "call" =>
        /\ (AnsweredTransient(t) /\ transient[t] < 10) =>
                /\ pc[t] \in {"sleep", "loop"}
                /\ result[t] = None
                /\ sends[t] = transient[t]
        /\ AnsweredOk(t) =>
                /\ pc[t] = "done"
                /\ transient[t] < 10
                /\ result[t] = Some(Ok(Unwrap(Answer(t).val)))
                /\ sends[t] = transient[t] + 1

\* A call that was answered with 9 retryable errors and then a reply, and
\* returned it after 10 sends.
C1_Witness ==
    \E t \in Threads :
        /\ CallDone(t) /\ AnsweredOk(t)
        /\ transient[t] = 9 /\ sends[t] = 10
        /\ Returned(t) = Ok(<<7>>)

\* C2: a call whose every send is answered with a retryable error returns the
\* retry-exhaustion error, whose text names the ceiling 10, after exactly 10
\* sends; and no call ever makes more than 10 sends.
C2_ExhaustionAtTen ==
    \A t \in Threads :
        /\ sends[t] <= 10
        /\ (op[t] = "call" /\ AnsweredTransient(t) /\ transient[t] >= 10) =>
                /\ pc[t] = "done"
                /\ sends[t] = 10
                /\ ~Returned(t).ok
                /\ ReturnedCause(t).kind = "DBusAPI"
                /\ ReturnedCause(t).msg = <<"Method call failed after ", "10", " retries">>

\* A call that returned the exhaustion error after 10 sends, all of them
\* answered with a retryable error.
C2_Witness ==
    \E t \in Threads :
        /\ CallDone(t) /\ AnsweredTransient(t)
        /\ transient[t] = 10 /\ sends[t] = 10
        /\ ~Returned(t).ok

\* C3: a transport error whose name is not in the retryable-error-name set
\* (or that has no name) ends the call at once, whatever that set holds: the
\* call has returned a failure that carries this transport error, the send it
\* answered is the last one (one send more than the retryable errors before
\* it, so exactly 1 when it answers the first send), and no delay follows it
\* (as many delays as retryable errors before it).
C3_OtherErrorIsTerminal ==
    \A t \in Threads : (op[t] = "call" /\ AnsweredOtherError(t)) =>
        /\ pc[t] = "done"
        /\ ~Returned(t).ok
        /\ ReturnedCause(t).dbus = Some(Unwrap(Answer(t).err))
        /\ sends[t] = transient[t] + 1
        /\ delays[t] = transient[t]
        /\ retries[t] = transient[t]
        /\ (transient[t] = 0 => sends[t] = 1 /\ delays[t] = 0)

\* A call on a dispatcher with a non-empty retryable-error-name set whose
\* first send was answered with a named error outside the set, and that
\* returned after this one send.
C3_Witness ==
    \E t \in Threads :
        /\ CallDone(t) /\ AnsweredOtherError(t)
        /\ method_retry_error_names # {}
        /\ Unwrap(Answer(t).err).name = Some("AccessDenied")
        /\ sends[t] = 1 /\ delays[t] = 0

\* The error e is one of the terminal errors of call: the wrapper of a
\* construction failure, of a transport failure that is not retryable, or of
\* the retry exhaustion.
TerminalCallError(e) ==
    /\ IsSome(e.cause)
    /\ LET c == Unwrap(e.cause)
       IN  \/ c.kind = "DBusAPI" /\ c.msg[1] = "invalid object path"
           \/ c.kind = "DBusAPI" /\ c.msg[1] = "Method call failed after "
           \/ /\ c.kind = "DBus"
              /\ ~Transient(TransportErr(Unwrap(c.dbus)))

\* C4: call never hands the "should retry" outcome to its caller: a call that
\* has returned has returned a reply or a terminal error (construction
\* failure, transport failure that is not retryable, retry exhaustion), and
\* an attempt that ended in "should retry" (None) is followed by another
\* attempt or turned into the exhaustion error.
C4_NoRetryableReturned ==
    \A t \in Threads : op[t] = "call" =>
        /\ pc[t] = "done" =>
                /\ IsSome(result[t])
                /\ IsSome(attempt[t]) \/ retries[t] = RETRIES_ALLOWED
                /\ Returned(t).ok \/ TerminalCallError(ReturnedError(t))
        /\ (sends[t] > 0 /\ attempt[t] = None) =>
                \/ pc[t] \in {"sleep", "loop"} /\ result[t] = None
                \/ /\ pc[t] = "done"
                   /\ ~Returned(t).ok
                   /\ ReturnedCause(t).msg[1] = "Method call failed after "

\* A call whose last attempt ended in "should retry" and that returned the
\* exhaustion error, not that outcome.
C4_Witness ==
    \E t \in Threads :
        /\ CallDone(t) /\ attempt[t] = None /\ sends[t] > 0
        /\ ~Returned(t).ok
        /\ TerminalCallError(ReturnedError(t))

\* The kinds of an error, from the outermost one down its chain of causes.
KindChain(e) == <<e.kind>> \o (IF IsSome(e.cause) THEN <<Unwrap(e.cause).kind>> ELSE <<>>)

\* The kinds call reports the retry exhaustion with.
ExhaustionKinds == KindChain(ChainErr(ExhaustedError, <<>>))

\* C5, as claimed: the error kind tells the retry exhaustion from the two
\* other terminal outcomes of call: a call that failed otherwise (its request
\* could not be built, or the transport answered with an error that is not
\* retryable) returns an error whose kinds are not those of the exhaustion.
C5_KindTellsOutcomesApart ==
    \A t \in Threads :
        (CallDone(t) /\ ~Returned(t).ok /\ ~AnsweredTransient(t)) =>
            KindChain(ReturnedError(t)) # ExhaustionKinds

\* C5, amended: every failure of call is a DBusAPI error wrapping its cause.
\* The cause of the retry exhaustion is a DBusAPI error too, the kind of the
\* cause of a construction failure: the two differ only in their text, which
\* for the exhaustion names the ceiling 10.  The cause of a transport failure
\* that is not retryable is the converted transport error, which neither of
\* the other two is.
C5_ExhaustionToldByText ==
    \A t \in Threads : (CallDone(t) /\ ~Returned(t).ok) =>
        /\ ReturnedError(t).kind = "DBusAPI"
        /\ AnsweredTransient(t) =>
                /\ ReturnedCause(t).kind = "DBusAPI"
                /\ ReturnedCause(t).dbus = None
                /\ ReturnedCause(t).msg = <<"Method call failed after ", "10", " retries">>
        /\ sends[t] = 0 =>
                /\ ReturnedCause(t).kind = "DBusAPI"
                /\ ReturnedCause(t).dbus = None
                /\ ReturnedCause(t).msg # <<"Method call failed after ", "10", " retries">>
        /\ AnsweredOtherError(t) =>
                /\ ReturnedCause(t).dbus = Some(Unwrap(Answer(t).err))
                /\ ReturnedCause(t).msg = <<>>

\* A call that returned the retry exhaustion, with the kinds that a
\* construction failure has as well.
C5_Witness ==
    \E t \in Threads :
        /\ CallDone(t) /\ AnsweredTransient(t) /\ ~Returned(t).ok
        /\ KindChain(ReturnedError(t)) = <<"DBusAPI", "DBusAPI">>
        /\ KindChain(ReturnedError(t)) =
             KindChain(ChainErr(DBusAPIError(NewMethodCallError("not a path")), <<>>))

\* C6: every failure call returns is an error that names the interface, the
\* method and the path of the call and has the underlying failure as its
\* chained cause (the construction failure, the transport error, or the
\* retry exhaustion); a reply is returned as the transport gave it.
C6_FailuresCarryCallContext ==
    \A t \in Threads : CallDone(t) =>
        IF Returned(t).ok
            THEN /\ AnsweredOk(t)
                 /\ Returned(t) = Ok(Unwrap(Answer(t).val))
            ELSE /\ ReturnedError(t).kind = "DBusAPI"
                 /\ ReturnedError(t).msg =
                        <<args[t].interface, "::", args[t].member,
                          " method call failed on ", args[t].path>>
                 /\ IsSome(ReturnedError(t).cause)
                 /\ ReturnedCause(t).cause = None
                 /\ sends[t] = 0 =>
                        ReturnedCause(t).msg = <<"invalid object path", args[t].path>>
                 /\ AnsweredOtherError(t) =>
                        ReturnedCause(t).dbus = Some(Unwrap(Answer(t).err))
                 /\ AnsweredTransient(t) =>
                        ReturnedCause(t).msg[1] = "Method call failed after "
                 /\ log[t] # <<>> /\ log[t][Len(log[t])] = "error"

\* A call of Disconnect on org.nm.Device that failed on a transport error and
\* returned it wrapped in the context of the call.
C6_Witness ==
    \E t \in Threads :
        /\ CallDone(t) /\ AnsweredOtherError(t)
        /\ args[t].member = "Disconnect"
        /\ ReturnedError(t).msg[1] = "org.nm.Device"
        /\ ReturnedCause(t).dbus = Some(Unwrap(Answer(t).err))

\* C7: a call whose request cannot be built returns that failure at once: it
\* sends nothing, leaves the attempt counter at 0, sleeps never, builds the
\* request once, and is not retried, whatever the retryable-error-name set.
C7_BuildFailureIsTerminal ==
    \A t \in Threads : (op[t] = "call" /\ ~ValidPath(args[t].path)) =>
        /\ sends[t] = 0 /\ retries[t] = 0 /\ delays[t] = 0
        /\ pc[t] \in {"loop", "done"}
        /\ pc[t] = "loop" => builds[t] = 0
        /\ pc[t] = "done" =>
                /\ builds[t] = 1
                /\ attempt[t] # None
                /\ ~Returned(t).ok
                /\ ReturnedCause(t) = DBusAPIError(<<"invalid object path", args[t].path>>)

\* A call on a dispatcher with retryable error names whose request could not
\* be built, and that has returned.
C7_Witness ==
    \E t \in Threads :
        /\ CallDone(t) /\ ~ValidPath(args[t].path)
        /\ method_retry_error_names # {}
        /\ builds[t] = 1 /\ sends[t] = 0

\* C8: nothing is retried outside the retry loop of call: a property read
\* makes exactly one fetch, no send and no delay, and returns the failure of
\* that fetch, with the transport error as its cause, also when the name of
\* the error is in the retryable-error-name set; extract and extract_two make
\* no fetch, no send and no delay.
C8_NoRetryOutsideCall ==
    \A t \in Threads :
        /\ op[t] = "property" =>
                /\ pc[t] = "done"
                /\ fetches[t] = 1 /\ sends[t] = 0 /\ delays[t] = 0 /\ retries[t] = 0
                /\ ~Answer(t).ok =>
                        /\ ~Returned(t).ok
                        /\ IsSome(ReturnedError(t).cause)
                        /\ ReturnedCause(t).dbus = Some(Unwrap(Answer(t).err))
        /\ op[t] \in {"extract", "extract_two"} =>
                /\ pc[t] = "done"
                /\ fetches[t] = 0 /\ sends[t] = 0 /\ delays[t] = 0 /\ retries[t] = 0
        /\ op[t] = "call" => fetches[t] = 0

\* A property read whose fetch failed with an error that call would retry,
\* and that returned the failure after this one fetch.
C8_Witness ==
    \E t \in Threads :
        /\ op[t] = "property" /\ pc[t] = "done"
        /\ AnsweredTransient(t)
        /\ fetches[t] = 1
        /\ ~Returned(t).ok

\* The wire value v has the shape that the target type T accepts.
Narrows(T, v) ==
    CASE T = "String" -> v.tag = "str"
      [] T \in {"i64", "u32", "bool"} -> v.tag = "int"
      [] T = "Vec<String>" ->
            v.tag = "array" /\ \A i \in 1..Len(v.elems) : v.elems[i].tag = "str"
      [] T = "Vec<u8>" ->
            v.tag = "array" /\ \A i \in 1..Len(v.elems) : v.elems[i].tag = "int"

\* C9: a property read returns an error in exactly two cases: the fetch
\* failed, or the fetched value does not narrow to the type asked for.  Both
\* errors are of the same kind; the first is logged at debug level and the
\* second at error level, and a value that narrows is returned with nothing
\* logged.
C9_PropertyFailures ==
    \A t \in Threads : op[t] = "property" =>
        /\ ~Returned(t).ok <=>
                (~Answer(t).ok \/ ~Narrows(want[t][1], Unwrap(Answer(t).val)))
        /\ ~Returned(t).ok => ReturnedError(t).kind = "DBusAPI"
        /\ ~Answer(t).ok => log[t] = <<"debug">>
        /\ (Answer(t).ok /\ ~Returned(t).ok) => log[t] = <<"error">>
        /\ Returned(t).ok => log[t] = <<>>

\* A property read that fetched a value of the wrong shape: an error, logged
\* at error level.
C9_Witness ==
    \E t \in Threads :
        /\ op[t] = "property" /\ pc[t] = "done"
        /\ Answer(t).ok /\ ~Narrows(want[t][1], Unwrap(Answer(t).val))
        /\ ~Returned(t).ok
        /\ log[t] = <<"error">>

\* C10: extract and extract_two return the fields asked for, all of them,
\* exactly when each position asked for is there and has the type asked for;
\* otherwise (also when the first field is right and the second is not) they
\* fail with the one "Wrong response type" error and return no field.
C10_ExtractAllOrNothing ==
    \A t \in Threads :
        /\ op[t] = "extract" =>
                IF Len(response[t]) >= 1 /\ response[t][1].tag = want[t][1]
                    THEN Returned(t) = Ok(response[t][1])
                    ELSE /\ ~Returned(t).ok
                         /\ Returned(t).val = None
                         /\ ReturnedError(t) = DBusAPIError(<<"Wrong response type">>)
        /\ op[t] = "extract_two" =>
                IF /\ Len(response[t]) >= 2
                   /\ response[t][1].tag = want[t][1]
                   /\ response[t][2].tag = want[t][2]
                    THEN Returned(t) = Ok(<<response[t][1], response[t][2]>>)
                    ELSE /\ ~Returned(t).ok
                         /\ Returned(t).val = None
                         /\ ReturnedError(t) = DBusAPIError(<<"Wrong response type">>)

\* An extract_two whose first field is right and whose second is of the wrong
\* type, and that failed.
C10_Witness ==
    \E t \in Threads :
        /\ op[t] = "extract_two" /\ pc[t] = "done"
        /\ Len(response[t]) = 2
        /\ response[t][1].tag = want[t][1]
        /\ response[t][2].tag # want[t][2]
        /\ ~Returned(t).ok

\* Thread t ran property::<T> and the fetch gave it a wire value.
Narrowed(t, T) ==
    op[t] = "property" /\ pc[t] = "done" /\ want[t] = <<T>> /\ Answer(t).ok

\* The wire value the fetch of thread t returned.
Fetched(t) == Unwrap(Answer(t).val)

\* C11: narrowing to bool succeeds exactly for a wire integer, and gives true
\* exactly when the integer is zero: 0 gives true; 1, -1, 2^32 and every other
\* integer give false; a string, a double or an array never narrows.
C11_BoolIsZeroTest ==
    \A t \in Threads : Narrowed(t, "bool") =>
        /\ Returned(t).ok <=> Fetched(t).tag = "int"
        /\ Fetched(t).tag = "int" =>
                /\ Fetched(t).int = <<0, 0, 0>> => Returned(t) = Ok(TRUE)
                /\ Fetched(t).int # <<0, 0, 0>> => Returned(t) = Ok(FALSE)
        /\ Fetched(t).tag # "int" => Returned(t).val = None

\* A read of the wire integer 1 as bool, which gave false.
C11_Witness ==
    \E t \in Threads :
        /\ Narrowed(t, "bool")
        /\ Fetched(t) = WInt(<<0, 0, 1>>)
        /\ Returned(t) = Ok(FALSE)

\* C12: narrowing to a list of strings is all or nothing: an array whose
\* elements are all strings gives those strings, in their order and number;
\* an array with an element that is not a string, at any position, fails, and
\* so does a value that is not an array; a failure returns no list.
C12_StringListAllOrNothing ==
    \A t \in Threads : Narrowed(t, "Vec<String>") =>
        IF /\ Fetched(t).tag = "array"
           /\ \A i \in 1..Len(Fetched(t).elems) : Fetched(t).elems[i].tag = "str"
            THEN /\ Returned(t).ok
                 /\ Len(Unwrap(Returned(t).val)) = Len(Fetched(t).elems)
                 /\ \A i \in 1..Len(Fetched(t).elems) :
                        Unwrap(Returned(t).val)[i] = Fetched(t).elems[i].str
            ELSE /\ ~Returned(t).ok
                 /\ Returned(t).val = None

\* A read of the array ["a", 1] as a list of strings, which failed.
C12_Witness ==
    \E t \in Threads :
        /\ Narrowed(t, "Vec<String>")
        /\ Fetched(t) = WArray(<<WStr("a"), WInt(<<0, 0, 1>>)>>)
        /\ ~Returned(t).ok

\* C13: narrowing the wire integer h * 2^32 + m * 2^16 + l to u32 always
\* succeeds and gives m * 2^16 + l, its value modulo 2^32, whatever h is:
\* -1 gives 2^32 - 1 and 2^32 + 5 gives 5; a value that is not an integer
\* fails.
C13_U32Wraps ==
    \A t \in Threads : Narrowed(t, "u32") =>
        /\ Fetched(t).tag = "int" =>
                /\ Returned(t).ok
                /\ Unwrap(Returned(t).val) = <<Fetched(t).int[2], Fetched(t).int[3]>>
                /\ Fetched(t).int = <<-1, 65535, 65535>> => Returned(t) = Ok(<<65535, 65535>>)
                /\ Fetched(t).int = <<1, 0, 5>> => Returned(t) = Ok(<<0, 5>>)
        /\ Fetched(t).tag # "int" => ~Returned(t).ok /\ Returned(t).val = None

\* A read of the wire integer -1 as u32, which gave 2^32 - 1.
C13_Witness ==
    \E t \in Threads :
        /\ Narrowed(t, "u32")
        /\ Fetched(t) = WInt(<<-1, 65535, 65535>>)
        /\ Returned(t) = Ok(<<65535, 65535>>)

\* C14: narrowing to a list of bytes gives, for an array whose elements are
\* all integers, each element modulo 256 (the low limb modulo 256), in their
\* order and number; an array with an element that is not an integer fails,
\* and a failure returns no list.
C14_ByteListTruncates ==
    \A t \in Threads : Narrowed(t, "Vec<u8>") =>
        IF /\ Fetched(t).tag = "array"
           /\ \A i \in 1..Len(Fetched(t).elems) : Fetched(t).elems[i].tag = "int"
            THEN /\ Returned(t).ok
                 /\ Len(Unwrap(Returned(t).val)) = Len(Fetched(t).elems)
                 /\ \A i \in 1..Len(Fetched(t).elems) :
                        Unwrap(Returned(t).val)[i] = Fetched(t).elems[i].int[3] % 256
            ELSE /\ ~Returned(t).ok
                 /\ Returned(t).val = None

\* A read of the array [263, -1] as a list of bytes, which gave [7, 255].
C14_Witness ==
    \E t \in Threads :
        /\ Narrowed(t, "Vec<u8>")
        /\ Fetched(t) = WArray(<<WInt(<<0, 0, 263>>), WInt(<<-1, 65535, 65535>>)>>)
        /\ Returned(t) = Ok(<<7, 255>>)

\* The call of thread t ended with a reply.
EndedInSuccess(t) == CallDone(t) /\ Returned(t).ok

\* The call of thread t ended with the error of the used-up retries.
EndedInExhaustion(t) ==
    /\ CallDone(t) /\ ~Returned(t).ok
    /\ attempt[t] = None
    /\ IsSome(ReturnedError(t).cause)
    /\ ReturnedCause(t) = ExhaustedError

\* The call of thread t ended with a terminal failure: its request could not
\* be built, or the transport answered with an error that is not retried.
EndedInTerminalFailure(t) ==
    /\ CallDone(t) /\ ~Returned(t).ok
    /\ IsSome(attempt[t])
    /\ IsSome(ReturnedError(t).cause)
    /\ ReturnedCause(t) = Unwrap(Unwrap(attempt[t]).err)

\* How many of the three ways of ending hold of the call of thread t.
EndingsOf(t) ==
    Cardinality({c \in {"success", "failure", "exhaustion"} :
        \/ c = "success" /\ EndedInSuccess(t)
        \/ c = "failure" /\ EndedInTerminalFailure(t)
        \/ c = "exhaustion" /\ EndedInExhaustion(t)})

\* C15: when every send and every sleep returns, a call that was dispatched
\* eventually returns, and it returns in exactly one of three ways: a reply,
\* a terminal failure, or the retry exhaustion.  The loop cannot go on for
\* ever: while the call runs its retry counter is below the ceiling of 10,
\* every pass that does not return adds one to it, and the delays never
\* exceed it.
C15_CallTerminates ==
    /\ (op[1] = "call") ~> CallDone(1)
    /\ [](op[1] = "call" =>
            /\ retries[1] <= RETRIES_ALLOWED
            /\ delays[1] <= retries[1]
            /\ pc[1] \in {"loop", "sleep"} =>
                    /\ retries[1] < RETRIES_ALLOWED
                    /\ retries[1] = sends[1]
                    /\ EndingsOf(1) = 0
            /\ pc[1] = "done" => EndingsOf(1) = 1)

\* A call that went through the loop as often as it can, slept between the
\* passes, and ended.
C15_Witness ==
    /\ CallDone(1) /\ EndedInExhaustion(1)
    /\ retries[1] = RETRIES_ALLOWED
    /\ delays[1] = RETRIES_ALLOWED - 1

\* C16: when several threads use the one DBusApi at once, each call counts
\* its own retries: in every interleaving the retry counter of a call equals
\* the number of retryable errors its own sends were answered with, a call
\* ends in the retry exhaustion only after 10 such errors of its own, no
\* call makes more than 10 sends, and no step of a call or of a property
\* read changes base, method_timeout or method_retry_error_names.
C16_IndependentRetryState ==
    /\ [](\A t \in Threads : op[t] = "call" =>
            /\ retries[t] = transient[t]
            /\ sends[t] <= RETRIES_ALLOWED
            /\ sends[t] \in {retries[t], retries[t] + 1}
            /\ (pc[t] = "done" /\ attempt[t] = None) <=> retries[t] = RETRIES_ALLOWED)
    /\ [][config' = config]_vars

\* Two calls in one run: the call of thread 1 used up its retries, while the
\* call of thread 2 was answered with a reply after 3 retryable errors and a
\* third thread of control, if any, is left out of it.
C16_Witness ==
    /\ CallDone(1) /\ EndedInExhaustion(1) /\ transient[1] = RETRIES_ALLOWED
    /\ CallDone(2) /\ EndedInSuccess(2) /\ transient[2] = 3 /\ sends[2] = 4

\* C17, as claimed: the request of a call is built exactly once, however
\* many retries the call makes.
C17_BuiltOncePerCall ==
    \A t \in Threads : CallDone(t) => builds[t] = 1

\* C17, amended: the request is built anew at every pass of the retry loop,
\* from the path, interface, method and arguments of the call, which no step
\* of the call changes: a request that can be built is built once per send
\* (one more than the retries so far when the call returned on an answer),
\* so only a call without a retry builds it exactly once; a request that
\* cannot be built is built once and never sent.
C17_BuiltBeforeEverySend ==
    /\ [](\A t \in Threads : op[t] = "call" =>
            /\ builds[t] <= RETRIES_ALLOWED
            /\ IF ValidPath(args[t].path)
                THEN builds[t] = sends[t]
                ELSE sends[t] = 0 /\ builds[t] = (IF pc[t] = "done" THEN 1 ELSE 0)
            /\ pc[t] = "done" =>
                    builds[t] = retries[t] + (IF IsSome(attempt[t]) THEN 1 ELSE 0))
    /\ [][\A t \in Threads : op[t] = "call" => args'[t] = args[t]]_vars

\* A call that was answered after two retries and built its request 3 times.
C17_Witness ==
    \E t \in Threads :
        /\ CallDone(t) /\ EndedInSuccess(t)
        /\ retries[t] = 2 /\ sends[t] = 3 /\ builds[t] = 3

\* C18, as claimed: in every call that has returned, the number of delays is
\* the number of sends minus one.
C18_DelaysAreSendsMinusOne ==
    \A t \in Threads : CallDone(t) => delays[t] = sends[t] - 1

\* C18, amended: a call sleeps exactly once, for 1 second, between two sends
\* and at no other time.  At the top of the loop there are as many delays as
\* sends; during a sleep and in every call that has returned after at least
\* one send there is one delay less than sends, so at most 9 delays for at
\* most 10 sends; every delay lasts 1 second.  A call whose request cannot be
\* built returns without a send and without a delay.  With each send taking
\* at most method_timeout, the time so far is within
\* method_timeout * (retries + 1) + 1 * retries.
C18_OneDelayBetweenSends ==
    \A t \in Threads : op[t] = "call" =>
        /\ slept[t] = delays[t]
        /\ sends[t] <= RETRIES_ALLOWED /\ delays[t] <= RETRIES_ALLOWED - 1
        /\ pc[t] = "loop" => delays[t] = sends[t]
        /\ pc[t] = "sleep" => delays[t] = sends[t] - 1
        /\ (pc[t] = "done" /\ sends[t] >= 1) => delays[t] = sends[t] - 1
        /\ (pc[t] = "done" /\ sends[t] = 0) =>
                delays[t] = 0 /\ ~ValidPath(args[t].path)
        /\ sends[t] * method_timeout + slept[t]
                <= method_timeout * (retries[t] + 1) + 1 * retries[t]

\* A call on a dispatcher with a timeout of 3 seconds that made 10 sends and
\* slept 9 times, 9 seconds in all, before it returned.
C18_Witness ==
    \E t \in Threads :
        /\ CallDone(t) /\ method_timeout = 3
        /\ sends[t] = 10 /\ delays[t] = 9 /\ slept[t] = 9

\* The way the call of thread t ended.
OutcomeClass(t) ==
    IF EndedInSuccess(t) THEN "success"
    ELSE IF EndedInExhaustion(t) THEN "exhaustion"
    ELSE IF EndedInTerminalFailure(t) THEN "failure"
    ELSE "none"

\* C19: two runs of the same call on the same dispatcher whose sends are
\* answered alike but for the message text of the errors go the same way.
\* After the same number of answered sends both runs have returned or
\* neither has, they count the same retries, and when both are at the same
\* place they have slept as often; the run that is one send behind has not
\* returned, so it makes that send too; and when both have returned they
\* have made the same number of sends and delays and ended the same way.
C19_TextDoesNotMatter ==
    (op[1] = "call" /\ op[2] = "call") =>
        /\ sends[2] \in {sends[1], sends[1] - 1}
        /\ sends[2] < sends[1] => pc[2] \in {"loop", "sleep"}
        /\ sends[2] = sends[1] =>
                /\ (pc[1] = "done") <=> (pc[2] = "done")
                /\ retries[1] = retries[2]
                /\ pc[1] = pc[2] => delays[1] = delays[2]
        /\ (pc[1] = "done" /\ pc[2] = "done") =>
                /\ sends[1] = sends[2] /\ delays[1] = delays[2]
                /\ OutcomeClass(1) = OutcomeClass(2)
                /\ OutcomeClass(1) # "none"

\* Two runs that were answered with a retryable error of the same name and
\* of different texts, and then with an error that is not retryable, again
\* of different texts: both failed after 2 sends and 1 delay.
C19_Witness ==
    /\ CallDone(1) /\ CallDone(2)
    /\ transient[1] = 1 /\ sends[1] = 2 /\ sends[2] = 2 /\ delays[2] = 1
    /\ AnsweredOtherError(1) /\ AnsweredOtherError(2)
    /\ Unwrap(Answer(1).err).message = Some("text1")
    /\ Unwrap(Answer(2).err).message = Some("text2")
    /\ OutcomeClass(2) = "failure"

\* The transport answered the latest send of thread t with an error that
\* carries no symbolic name.
AnsweredUnnamedError(t) ==
    IsSome(answer[t]) /\ ~Answer(t).ok /\ Unwrap(Answer(t).err).name = None

\* C20: a transport error without a symbolic name is not retried, whatever
\* names are configured, and with no name configured no transport error is
\* retried: the call has returned a failure carrying that error right after
\* the send it answered, with no delay after it; and a call on a dispatcher
\* with no retryable name makes one send at most, no retry and no delay.
C20_UnnamedOrNoNamesIsTerminal ==
    \A t \in Threads : op[t] = "call" =>
        /\ (IsSome(answer[t]) /\ ~Answer(t).ok
             /\ (AnsweredUnnamedError(t) \/ method_retry_error_names = {})) =>
                /\ pc[t] = "done"
                /\ ~Returned(t).ok
                /\ IsSome(attempt[t])
                /\ IsSome(ReturnedError(t).cause)
                /\ ReturnedCause(t) = ErrorFromDBus(Unwrap(Answer(t).err))
                /\ sends[t] = retries[t] + 1
                /\ delays[t] = retries[t]
        /\ method_retry_error_names = {} =>
                retries[t] = 0 /\ sends[t] <= 1 /\ delays[t] = 0

\* A call on a dispatcher with retryable names whose second send was answered
\* with an error without a name, and that failed with it after that send.
C20_Witness ==
    \E t \in Threads :
        /\ CallDone(t) /\ AnsweredUnnamedError(t)
        /\ method_retry_error_names # {}
        /\ retries[t] = 1 /\ sends[t] = 2 /\ delays[t] = 1
        /\ ~Returned(t).ok

\* A call on a dispatcher without retryable names whose send was answered
\* with a named error, and that failed after that one send.
C20_WitnessNoNames ==
    \E t \in Threads :
        /\ CallDone(t) /\ method_retry_error_names = {}
        /\ IsSome(answer[t]) /\ ~Answer(t).ok /\ ~AnsweredUnnamedError(t)
        /\ sends[t] = 1 /\ ~Returned(t).ok

====
